---------------------------- MODULE Spec2Model ----------------------------
(***************************************************************************)
(* Model of the steering odometry (steering_odometry.cpp) and of the speed *)
(* limiter (speed_limiter.cpp).                                            *)
(*                                                                         *)
(* Numbers.  A C++ double is modelled as an extended rational <<n, d>>     *)
(* with d >= 0 and gcd(n, d) = 1:                                          *)
(*     <<n, d>>, d > 0   the finite value n/d                              *)
(*     <<1, 0>>, <<-1, 0>>   +infinity, -infinity                          *)
(*     <<0, 0>>          NaN                                               *)
(* Arithmetic on finite values is exact (no rounding of +, -, *, /); the   *)
(* IEEE rules for division by zero, infinities and NaN are kept.  The sign *)
(* bit of a zero or of a NaN is not tracked: where the code reads it       *)
(* (copysign) either sign may come out.                                    *)
(***************************************************************************)
EXTENDS Integers, Sequences, FiniteSets, TLC

----------------------------------------------------------------------------
(* double arithmetic *)

Abs(i) == IF i < 0 THEN -i ELSE i

Sgn(i) == IF i < 0 THEN -1 ELSE IF i > 0 THEN 1 ELSE 0

RECURSIVE Gcd(_, _)
Gcd(a, b) == IF b = 0 THEN a ELSE Gcd(b, a % b)

\* The double n/d (d > 0), in lowest terms.
R(n, d) == LET g == Gcd(Abs(n), d) IN <<n \div g, d \div g>>

\* The double with the integer value n.
I(n) == <<n, 1>>

NaN == <<0, 0>>

PInf == <<1, 0>>

NInf == <<-1, 0>>

Zero == <<0, 1>>

One == <<1, 1>>

Half == <<1, 2>>

Two == <<2, 1>>

\* std::isnan
IsNaN(a) == a = NaN

IsFinite(a) == a[2] # 0

\* -a
Neg(a) == <<-a[1], a[2]>>

\* a + b
Add(a, b) ==
    IF IsNaN(a) \/ IsNaN(b) THEN NaN
    ELSE IF ~IsFinite(a) /\ ~IsFinite(b) THEN (IF a = b THEN a ELSE NaN)
    ELSE IF ~IsFinite(a) THEN a
    ELSE IF ~IsFinite(b) THEN b
    ELSE LET g == Gcd(a[2], b[2])
         IN  R(a[1] * (b[2] \div g) + b[1] * (a[2] \div g), (a[2] \div g) * b[2])

\* a - b
Sub(a, b) == Add(a, Neg(b))

\* a * b
Mul(a, b) ==
    IF IsNaN(a) \/ IsNaN(b) THEN NaN
    ELSE IF ~IsFinite(a) \/ ~IsFinite(b)
         THEN <<Sgn(a[1]) * Sgn(b[1]), 0>>
    ELSE LET g1 == Gcd(Abs(a[1]), b[2])
             g2 == Gcd(Abs(b[1]), a[2])
         IN  <<(a[1] \div g1) * (b[1] \div g2), (a[2] \div g2) * (b[2] \div g1)>>

\* 1 / a
Recip(a) ==
    IF IsNaN(a) THEN NaN
    ELSE IF ~IsFinite(a) THEN Zero
    ELSE IF a[1] = 0 THEN PInf
    ELSE <<Sgn(a[1]) * a[2], Abs(a[1])>>

\* a / b
Div(a, b) == Mul(a, Recip(b))

\* n1/d1 < n2/d2 for d1, d2 > 0, without forming the cross products.
RECURSIVE LessFin(_, _, _, _)
LessFin(n1, d1, n2, d2) ==
    LET q1 == n1 \div d1
        q2 == n2 \div d2
        r1 == n1 % d1
        r2 == n2 % d2
    IN  IF q1 # q2 THEN q1 < q2
        ELSE IF r2 = 0 THEN FALSE
        ELSE IF r1 = 0 THEN TRUE
        ELSE LessFin(d2, r2, d1, r1)

\* a < b (false when either is NaN)
Less(a, b) ==
    IF IsNaN(a) \/ IsNaN(b) THEN FALSE
    ELSE IF a = PInf \/ b = NInf THEN FALSE
    ELSE IF a = NInf \/ b = PInf THEN TRUE
    ELSE LessFin(a[1], a[2], b[1], b[2])

\* a != 0.0 (true of NaN)
NonZero(a) == a # Zero

\* fabs
Fabs(a) == <<Abs(a[1]), a[2]>>

\* pow(a, 2)
Sq(a) == Mul(a, a)


----------------------------------------------------------------------------
(* speed_limiter.cpp *)

\* rcppmath::clamp(v, lo, hi)
Clamp(v, lo, hi) == IF Less(v, lo) THEN lo ELSE IF Less(hi, v) THEN hi ELSE v

\* The ratio without the test of tmp.
RatioUnguarded(v, tmp) == Div(v, tmp)

\* The ratio every limit_* function returns: tmp != 0.0 ? v / tmp : 1.0
Ratio(v, tmp) == IF NonZero(tmp) THEN Div(v, tmp) ELSE One

\* A constructor that checks max_velocity and max_acceleration only.
SpeedLimiterCtorNoJerkCheck(hv, ha, hj, minv, maxv, mina, maxa, minj, maxj) ==
    [ thrown |->
          IF hv /\ IsNaN(maxv)
          THEN "Cannot apply velocity limits if max_velocity is not specified"
          ELSE IF ha /\ IsNaN(maxa)
          THEN "Cannot apply acceleration limits if max_acceleration is not specified"
          ELSE "",
      has_velocity_limits_ |-> hv,
      has_acceleration_limits_ |-> ha,
      has_jerk_limits_ |-> hj,
      min_velocity_ |-> IF hv /\ IsNaN(minv) THEN Neg(maxv) ELSE minv,
      max_velocity_ |-> maxv,
      min_acceleration_ |-> IF ha /\ IsNaN(mina) THEN Neg(maxa) ELSE mina,
      max_acceleration_ |-> maxa,
      min_jerk_ |-> IF hj /\ IsNaN(minj) THEN Neg(maxj) ELSE minj,
      max_jerk_ |-> maxj ]

\* SpeedLimiter::SpeedLimiter: the members after the initializer list and the
\* three checks, and the exception thrown ("" when none).
SpeedLimiterCtor(hv, ha, hj, minv, maxv, mina, maxa, minj, maxj) ==
    LET thrown ==
            IF hv /\ IsNaN(maxv)
            THEN "Cannot apply velocity limits if max_velocity is not specified"
            ELSE IF ha /\ IsNaN(maxa)
            THEN "Cannot apply acceleration limits if max_acceleration is not specified"
            ELSE IF hj /\ IsNaN(maxj)
            THEN "Cannot apply jerk limits if max_jerk is not specified"
            ELSE ""
    IN  [ thrown |-> thrown,
          has_velocity_limits_ |-> hv,
          has_acceleration_limits_ |-> ha,
          has_jerk_limits_ |-> hj,
          min_velocity_ |-> IF hv /\ IsNaN(minv) THEN Neg(maxv) ELSE minv,
          max_velocity_ |-> maxv,
          min_acceleration_ |-> IF ha /\ IsNaN(mina) THEN Neg(maxa) ELSE mina,
          max_acceleration_ |-> maxa,
          min_jerk_ |-> IF hj /\ IsNaN(minj) THEN Neg(maxj) ELSE minj,
          max_jerk_ |-> maxj ]

\* A velocity stage that stops the channel when v is out of range.
LimitVelocityStops(L, v) ==
    LET tmp == v
        v2 == IF L.has_velocity_limits_
                  /\ (Less(v, L.min_velocity_) \/ Less(L.max_velocity_, v))
              THEN Zero
              ELSE v
    IN  [v |-> v2, ret |-> Ratio(v2, tmp)]

\* double SpeedLimiter::limit_velocity(double & v): [v |-> v after, ret |-> returned]
LimitVelocity(L, v) ==
    LET tmp == v
        v2 == IF L.has_velocity_limits_
              THEN Clamp(v, L.min_velocity_, L.max_velocity_)
              ELSE v
    IN  [v |-> v2, ret |-> Ratio(v2, tmp)]

\* double SpeedLimiter::limit_acceleration(double & v, double v0, double dt)
LimitAcceleration(L, v, v0, dt) ==
    LET tmp == v
        dv_min == Mul(L.min_acceleration_, dt)
        dv_max == Mul(L.max_acceleration_, dt)
        dv == Clamp(Sub(v, v0), dv_min, dv_max)
        v2 == IF L.has_acceleration_limits_ THEN Add(v0, dv) ELSE v
    IN  [v |-> v2, ret |-> Ratio(v2, tmp)]

\* double SpeedLimiter::limit_jerk(double & v, double v0, double v1, double dt)
LimitJerk(L, v, v0, v1, dt) ==
    LET tmp == v
        dv == Sub(v, v0)
        dv0 == Sub(v0, v1)
        dt2 == Mul(Mul(Two, dt), dt)
        da_min == Mul(L.min_jerk_, dt2)
        da_max == Mul(L.max_jerk_, dt2)
        da == Clamp(Sub(dv, dv0), da_min, da_max)
        v2 == IF L.has_jerk_limits_ THEN Add(Add(v0, dv0), da) ELSE v
    IN  [v |-> v2, ret |-> Ratio(v2, tmp)]

\* limit with the stages in the order velocity, acceleration, jerk.
LimitVelocityFirst(L, v, v0, v1, dt) ==
    LET tmp == v
        vv == LimitVelocity(L, v).v
        va == LimitAcceleration(L, vv, v0, dt).v
        vj == LimitJerk(L, va, v0, v1, dt).v
    IN  [v |-> vj, ret |-> Ratio(vj, tmp)]

\* double SpeedLimiter::limit(double & v, double v0, double v1, double dt)
Limit(L, v, v0, v1, dt) ==
    LET tmp == v
        vj == LimitJerk(L, v, v0, v1, dt).v
        va == LimitAcceleration(L, vj, v0, dt).v
        vv == LimitVelocity(L, va).v
    IN  [v |-> vv, ret |-> Ratio(vv, tmp)]


----------------------------------------------------------------------------
(* <cmath> *)

\* tan, cos and sin are evaluated numerically at the angles the callers give
\* or get_commands computes (0, 1, 1.1 and 1.6 for pi/2, and their negatives),
\* where their values are rounded to one decimal: tan 1 = 1.557..,
\* cos 1 = 0.540.., sin 1 = 0.841.., cos 1.1 = 0.453.., sin 1.1 = 0.891..,
\* cos 1.6 = -0.029.., sin 1.6 = 0.999..
Tan(a) ==
    IF ~IsFinite(a) THEN NaN
    ELSE CASE a = Zero -> Zero
           [] a = One -> <<8, 5>>
           [] a = I(-1) -> <<-8, 5>>

Cos(a) ==
    IF ~IsFinite(a) THEN NaN
    ELSE CASE a = Zero -> One
           [] a = One -> <<1, 2>>
           [] a = I(-1) -> <<1, 2>>
           [] a \in {<<11, 10>>, <<-11, 10>>} -> <<1, 2>>
           [] a \in {<<8, 5>>, <<-8, 5>>} -> Zero

Sin(a) ==
    IF ~IsFinite(a) THEN NaN
    ELSE CASE a = Zero -> Zero
           [] a = One -> <<4, 5>>
           [] a = I(-1) -> <<-4, 5>>
           [] a = <<11, 10>> -> <<9, 10>>
           [] a = <<-11, 10>> -> <<-9, 10>>
           [] a = <<8, 5>> -> One
           [] a = <<-8, 5>> -> I(-1)

\* The largest k in lo..hi with (k / 100)^2 <= n / d (lo satisfies it).
RECURSIVE RootIn(_, _, _, _)
RootIn(n, d, lo, hi) ==
    IF lo = hi THEN lo
    ELSE LET mid == (lo + hi + 1) \div 2
         IN  IF LessFin(n, d, mid * mid, 10000)
             THEN RootIn(n, d, lo, mid - 1)
             ELSE RootIn(n, d, mid, hi)

\* sqrt, rounded down to hundredths (of values below 100^2).
Sqrt(a) ==
    IF IsNaN(a) \/ a = NInf THEN NaN
    ELSE IF a = PInf THEN PInf
    ELSE IF a[1] < 0 THEN NaN
    ELSE R(RootIn(a[1], a[2], 0, 10000), 100)

\* M_PI_2, rounded to one decimal like the results of atan.
M_PI_2 == <<8, 5>>

\* tan 0.05, tan 0.15, ..., tan 1.55: atan x is k / 10 to one decimal when
\* exactly k of them are <= x.
AtanSteps ==
    << R(500, 10000), R(1511, 10000), R(2553, 10000), R(3650, 10000),
       R(4831, 10000), R(6131, 10000), R(7602, 10000), R(9316, 10000),
       R(11383, 10000), R(13984, 10000), R(17433, 10000), R(22345, 10000),
       R(30096, 10000), R(44552, 10000), R(82381, 10000), R(480785, 10000) >>

\* atan, rounded to one decimal.
Atan(a) ==
    IF IsNaN(a) THEN NaN
    ELSE LET k == Cardinality({i \in 1..Len(AtanSteps) : ~Less(Fabs(a), AtanSteps[i])})
         IN  IF Less(a, Zero) THEN R(-k, 10) ELSE R(k, 10)

\* atan2(y, x), rounded to one decimal; a zero argument is taken as +0.
Atan2(y, x) ==
    IF IsNaN(y) \/ IsNaN(x) THEN NaN
    ELSE IF x = Zero
         THEN (IF y = Zero THEN Zero ELSE IF Less(y, Zero) THEN Neg(M_PI_2) ELSE M_PI_2)
    ELSE IF ~IsFinite(x) /\ ~IsFinite(y) THEN NaN
    ELSE IF Less(Zero, x) THEN Atan(Div(y, x))
    ELSE IF Less(y, Zero) THEN Sub(Atan(Div(y, x)), Mul(Two, M_PI_2))
    ELSE Add(Atan(Div(y, x)), Mul(Two, M_PI_2))

\* std::hypot(a, b)
Hypot(a, b) ==
    IF a \in {PInf, NInf} \/ b \in {PInf, NInf} THEN PInf
    ELSE Sqrt(Add(Sq(a), Sq(b)))

\* The values the unqualified abs(a) can give: the double overload's or, where
\* only ::abs(int) is visible, that of a truncated to int.
AbsSet(a) ==
    IF ~IsFinite(a) THEN {Fabs(a)}
    ELSE {Fabs(a), I(Abs(a[1]) \div a[2])}

\* The signs copysign(1.0, a) can give: the sign of a, either one when a is a
\* zero or a NaN (their sign bit is not tracked).
SignSet(a) == IF IsNaN(a) \/ a = Zero THEN {-1, 1} ELSE {Sgn(a[1])}


----------------------------------------------------------------------------
(* rcppmath::RollingMeanAccumulator<double>, as steering_odometry.cpp uses it *)

\* RollingMeanAccumulator(rolling_window_size): a zeroed ring buffer.
NewAccumulator(n) ==
    [ buffer_ |-> [i \in 1..n |-> Zero],
      next_insert_ |-> 0,
      sum_ |-> Zero,
      buffer_filled_ |-> FALSE ]

\* accumulate(val) with a sum that only gains val.
AccumulateKeepsAll(acc, val) ==
    LET size == Len(acc.buffer_)
        next == acc.next_insert_ + 1
    IN  [ buffer_ |-> [acc.buffer_ EXCEPT ![acc.next_insert_ + 1] = val],
          next_insert_ |-> next % size,
          sum_ |-> Add(acc.sum_, val),
          buffer_filled_ |-> acc.buffer_filled_ \/ next >= size ]

\* accumulate(val): the running sum drops the overwritten slot and gains val.
Accumulate(acc, val) ==
    LET size == Len(acc.buffer_)
        next == acc.next_insert_ + 1
    IN  [ buffer_ |-> [acc.buffer_ EXCEPT ![acc.next_insert_ + 1] = val],
          next_insert_ |-> next % size,
          sum_ |-> Add(Sub(acc.sum_, acc.buffer_[acc.next_insert_ + 1]), val),
          buffer_filled_ |-> acc.buffer_filled_ \/ next >= size ]

\* getRollingMean(): sum_ / valid_data_count
GetRollingMean(acc) ==
    LET valid_data_count ==
            IF acc.buffer_filled_ THEN Len(acc.buffer_) ELSE acc.next_insert_
    IN  Div(acc.sum_, I(valid_data_count))

----------------------------------------------------------------------------
(* steering_odometry.cpp *)

\* dt below which update_odometry does not estimate the speeds: 0.0001
DtMin == <<1, 10000>>

\* |angular| below which integrate_exact uses Runge-Kutta: 1e-6
AngularEps == <<1, 1000000>>

\* A double member the constructor leaves uninitialised: its value is
\* indeterminate until the first assignment.
Indet == <<0, -1>>

\* x_ and y_ are sums of products c * cos(a) and c * sin(a) at headings a that
\* are no table angles; such a sum is kept as the sequence of its terms
\* <<c, f, a>>, f being "cos" or "sin".  0.0 is the empty sum.
NoTerms == << >>

\* x_ or y_ once a NaN or an infinity was added to it.
NonFinite == << <<NaN, "nan", NaN>> >>

\* s + c * f(a)
AddTerm(s, c, f, a) ==
    IF s = NonFinite \/ ~IsFinite(c) \/ ~IsFinite(a) THEN NonFinite
    ELSE IF c = Zero THEN s
    ELSE Append(s, <<c, f, a>>)

\* SteeringOdometry::SteeringOdometry(velocity_rolling_window_size)
SteeringOdometryCtor(velocity_rolling_window_size) ==
    [ timestamp_ |-> Zero,
      x_ |-> NoTerms,
      y_ |-> NoTerms,
      heading_ |-> Zero,
      linear_ |-> Zero,
      angular_ |-> Zero,
      wheel_track_ |-> Zero,
      wheelbase_ |-> Zero,
      wheel_radius_ |-> Zero,
      traction_wheel_old_pos_ |-> Zero,
      traction_right_wheel_old_pos_ |-> Indet,
      traction_left_wheel_old_pos_ |-> Indet,
      steer_pos_ |-> Indet,
      y_steering_offset_ |-> Indet,
      config_type_ |-> "indeterminate",
      velocity_rolling_window_size_ |-> velocity_rolling_window_size,
      linear_acc_ |-> NewAccumulator(velocity_rolling_window_size),
      angular_acc_ |-> NewAccumulator(velocity_rolling_window_size) ]

\* SteeringOdometry::reset_accumulators
ResetAccumulators(o) ==
    [o EXCEPT !.linear_acc_ = NewAccumulator(o.velocity_rolling_window_size_),
              !.angular_acc_ = NewAccumulator(o.velocity_rolling_window_size_)]

\* SteeringOdometry::init(time)
InitOdometry(o, time) == [ResetAccumulators(o) EXCEPT !.timestamp_ = time]

\* SteeringOdometry::integrate_runge_kutta_2(linear, angular)
IntegrateRungeKutta2(o, linear, angular) ==
    LET direction == Add(o.heading_, Mul(angular, Half))
    IN  [o EXCEPT !.x_ = AddTerm(o.x_, linear, "cos", direction),
                  !.y_ = AddTerm(o.y_, linear, "sin", direction),
                  !.heading_ = Add(o.heading_, angular)]

\* integrate_exact with the heading brought back by a turn once it passes pi
\* (taken as 22/7).
IntegrateExactWrapped(o, linear, angular) ==
    LET heading_new == Add(o.heading_, angular)
        wrapped == IF Less(<<22, 7>>, heading_new)
                   THEN Sub(heading_new, <<44, 7>>)
                   ELSE heading_new
        r == Div(linear, angular)
    IN  IF Less(Fabs(angular), AngularEps)
        THEN [IntegrateRungeKutta2(o, linear, angular) EXCEPT !.heading_ = wrapped]
        ELSE [o EXCEPT !.heading_ = wrapped,
                       !.x_ = AddTerm(AddTerm(o.x_, r, "sin", heading_new),
                                      Neg(r), "sin", o.heading_),
                       !.y_ = AddTerm(AddTerm(o.y_, Neg(r), "cos", heading_new),
                                      r, "cos", o.heading_)]

\* SteeringOdometry::integrate_exact(linear, angular)
IntegrateExact(o, linear, angular) ==
    IF Less(Fabs(angular), AngularEps)
    THEN IntegrateRungeKutta2(o, linear, angular)
    ELSE LET heading_old == o.heading_
             r == Div(linear, angular)
             heading_new == Add(o.heading_, angular)
         IN  [o EXCEPT !.heading_ = heading_new,
                       !.x_ = AddTerm(AddTerm(o.x_, r, "sin", heading_new),
                                      Neg(r), "sin", heading_old),
                       !.y_ = AddTerm(AddTerm(o.y_, Neg(r), "cos", heading_new),
                                      r, "cos", heading_old)]

\* SteeringOdometry::update_odometry(linear_velocity, angular, dt):
\* [o |-> the object after the call, ret |-> the value returned]
UpdateOdometry(o, linear_velocity, angular, dt) ==
    LET o1 == IntegrateExact(o, Mul(linear_velocity, dt), angular)
    IN  IF Less(dt, DtMin) THEN [o |-> o1, ret |-> FALSE]
        ELSE LET lacc == Accumulate(o1.linear_acc_, linear_velocity)
                 aacc == Accumulate(o1.angular_acc_, Div(angular, dt))
             IN  [ o |-> [o1 EXCEPT !.linear_acc_ = lacc,
                                    !.angular_acc_ = aacc,
                                    !.linear_ = GetRollingMean(lacc),
                                    !.angular_ = GetRollingMean(aacc)],
                   ret |-> TRUE ]


\* What a call of an update function hands back to the model: the object
\* after the call, the value returned, the <<linear_velocity, angular>> given
\* to update_odometry and the traveled-distance deltas it computed.
Outcome(u, linear_velocity, angular, deltas) ==
    [o |-> u.o, ret |-> u.ret, core |-> <<linear_velocity, angular>>, dist |-> deltas]

\* update_from_position that stores the old position only when dt is not below
\* the threshold.
UpdateFromPosition1StoresOnSuccess(o, traction_wheel_pos, steer_pos, dt) ==
    LET traction_wheel_cur_pos == Mul(traction_wheel_pos, o.wheel_radius_)
        traction_wheel_est_pos_diff ==
            Sub(traction_wheel_cur_pos, o.traction_wheel_old_pos_)
        o1 == [o EXCEPT !.traction_wheel_old_pos_ =
                            IF Less(dt, DtMin) THEN @ ELSE traction_wheel_cur_pos,
                        !.steer_pos_ = steer_pos]
        linear_velocity == Div(traction_wheel_est_pos_diff, dt)
        angular == Div(Mul(Tan(steer_pos), linear_velocity), o.wheelbase_)
    IN  Outcome(UpdateOdometry(o1, linear_velocity, angular, dt),
                linear_velocity, angular, <<traction_wheel_est_pos_diff>>)

\* update_from_position(traction_wheel_pos, steer_pos, dt)
UpdateFromPosition1(o, traction_wheel_pos, steer_pos, dt) ==
    LET traction_wheel_cur_pos == Mul(traction_wheel_pos, o.wheel_radius_)
        traction_wheel_est_pos_diff ==
            Sub(traction_wheel_cur_pos, o.traction_wheel_old_pos_)
        o1 == [o EXCEPT !.traction_wheel_old_pos_ = traction_wheel_cur_pos,
                        !.steer_pos_ = steer_pos]
        linear_velocity == Div(traction_wheel_est_pos_diff, dt)
        angular == Div(Mul(Tan(steer_pos), linear_velocity), o.wheelbase_)
    IN  Outcome(UpdateOdometry(o1, linear_velocity, angular, dt),
                linear_velocity, angular, <<traction_wheel_est_pos_diff>>)

\* update_from_position(traction_right_wheel_pos, traction_left_wheel_pos,
\* steer_pos, dt); old_right and old_left are the values read from
\* traction_right_wheel_old_pos_ and traction_left_wheel_old_pos_.
UpdateFromPosition2(o, old_right, old_left, traction_right_wheel_pos, traction_left_wheel_pos, steer_pos, dt) ==
    LET traction_right_wheel_cur_pos == Mul(traction_right_wheel_pos, o.wheel_radius_)
        traction_left_wheel_cur_pos == Mul(traction_left_wheel_pos, o.wheel_radius_)
        traction_right_wheel_est_pos_diff == Sub(traction_right_wheel_cur_pos, old_right)
        traction_left_wheel_est_pos_diff == Sub(traction_left_wheel_cur_pos, old_left)
        o1 == [o EXCEPT !.traction_right_wheel_old_pos_ = traction_right_wheel_cur_pos,
                        !.traction_left_wheel_old_pos_ = traction_left_wheel_cur_pos,
                        !.steer_pos_ = steer_pos]
        linear_velocity ==
            Div(Mul(Add(traction_right_wheel_est_pos_diff,
                        traction_left_wheel_est_pos_diff), Half), dt)
        angular == Div(Mul(Tan(o1.steer_pos_), linear_velocity), o.wheelbase_)
    IN  Outcome(UpdateOdometry(o1, linear_velocity, angular, dt),
                linear_velocity, angular,
                <<traction_right_wheel_est_pos_diff, traction_left_wheel_est_pos_diff>>)

\* update_from_position(traction_right_wheel_pos, traction_left_wheel_pos,
\* right_steer_pos, left_steer_pos, dt)
UpdateFromPosition3(o, old_right, old_left, traction_right_wheel_pos, traction_left_wheel_pos, right_steer_pos, left_steer_pos, dt) ==
    LET traction_right_wheel_cur_pos == Mul(traction_right_wheel_pos, o.wheel_radius_)
        traction_left_wheel_cur_pos == Mul(traction_left_wheel_pos, o.wheel_radius_)
        traction_right_wheel_est_pos_diff == Sub(traction_right_wheel_cur_pos, old_right)
        traction_left_wheel_est_pos_diff == Sub(traction_left_wheel_cur_pos, old_left)
        o1 == [o EXCEPT !.traction_right_wheel_old_pos_ = traction_right_wheel_cur_pos,
                        !.traction_left_wheel_old_pos_ = traction_left_wheel_cur_pos,
                        !.steer_pos_ = Mul(Add(right_steer_pos, left_steer_pos), Half)]
        linear_velocity ==
            Div(Mul(Add(traction_right_wheel_est_pos_diff,
                        traction_left_wheel_est_pos_diff), Half), dt)
        angular == Div(Mul(Tan(o1.steer_pos_), linear_velocity), o.wheelbase_)
    IN  Outcome(UpdateOdometry(o1, linear_velocity, angular, dt),
                linear_velocity, angular,
                <<traction_right_wheel_est_pos_diff, traction_left_wheel_est_pos_diff>>)

\* update_from_velocity(traction_wheel_vel, steer_pos, dt)
UpdateFromVelocity1(o, traction_wheel_vel, steer_pos, dt) ==
    LET o1 == [o EXCEPT !.steer_pos_ = steer_pos]
        linear_velocity == Mul(traction_wheel_vel, o.wheel_radius_)
        angular == Div(Mul(Tan(steer_pos), linear_velocity), o.wheelbase_)
    IN  Outcome(UpdateOdometry(o1, linear_velocity, angular, dt),
                linear_velocity, angular, << >>)

\* update_from_velocity(right_traction_wheel_vel, left_traction_wheel_vel,
\* steer_pos, dt)
UpdateFromVelocity2(o, right_traction_wheel_vel, left_traction_wheel_vel, steer_pos, dt) ==
    LET linear_velocity ==
            Mul(Mul(Add(right_traction_wheel_vel, left_traction_wheel_vel),
                    o.wheel_radius_), Half)
        o1 == [o EXCEPT !.steer_pos_ = steer_pos]
        angular == Div(Mul(Tan(o1.steer_pos_), linear_velocity), o.wheelbase_)
    IN  Outcome(UpdateOdometry(o1, linear_velocity, angular, dt),
                linear_velocity, angular, << >>)

\* update_from_velocity(right_traction_wheel_vel, left_traction_wheel_vel,
\* right_steer_pos, left_steer_pos, dt): angular is steer_pos_ times the
\* linear velocity over the wheelbase (line 226 takes no tangent).
UpdateFromVelocity3(o, right_traction_wheel_vel, left_traction_wheel_vel, right_steer_pos, left_steer_pos, dt) ==
    LET o1 == [o EXCEPT !.steer_pos_ = Mul(Add(right_steer_pos, left_steer_pos), Half)]
        linear_velocity ==
            Mul(Mul(Add(right_traction_wheel_vel, left_traction_wheel_vel),
                    o.wheel_radius_), Half)
        angular == Div(Mul(o1.steer_pos_, linear_velocity), o.wheelbase_)
    IN  Outcome(UpdateOdometry(o1, linear_velocity, angular, dt),
                linear_velocity, angular, << >>)

\* update_open_loop that integrates angular as the feedback updates do, not
\* multiplied by dt.
UpdateOpenLoopUnscaled(o, linear, angular, dt) ==
    IntegrateExact([o EXCEPT !.linear_ = linear, !.angular_ = angular],
                   Mul(linear, dt), angular)

\* update_open_loop(linear, angular, dt)
UpdateOpenLoop(o, linear, angular, dt) ==
    IntegrateExact([o EXCEPT !.linear_ = linear, !.angular_ = angular],
                   Mul(linear, dt), Mul(angular, dt))

\* set_wheel_params(wheel_radius, wheelbase, wheel_track)
SetWheelParams3(o, wheel_radius, wheelbase, wheel_track) ==
    [o EXCEPT !.wheel_radius_ = wheel_radius,
              !.wheelbase_ = wheelbase,
              !.wheel_track_ = wheel_track]

\* set_wheel_params(wheel_radius, wheelbase, wheel_track, y_steering_offset)
SetWheelParams4(o, wheel_radius, wheelbase, wheel_track, y_steering_offset) ==
    [o EXCEPT !.wheel_radius_ = wheel_radius,
              !.wheelbase_ = wheelbase,
              !.wheel_track_ = wheel_track,
              !.y_steering_offset_ = y_steering_offset]

\* set_velocity_rolling_window_size(velocity_rolling_window_size)
SetVelocityRollingWindowSize(o, velocity_rolling_window_size) ==
    ResetAccumulators(
        [o EXCEPT !.velocity_rolling_window_size_ = velocity_rolling_window_size])

\* set_odometry_type(type)
SetOdometryType(o, type) == [o EXCEPT !.config_type_ = type]

\* convert_trans_rot_vel_to_steering_angle(Vx, theta_dot)
ConvertTransRotVelToSteeringAngle(o, Vx, theta_dot) ==
    IF theta_dot = Zero \/ Vx = Zero THEN Zero
    ELSE Atan(Div(Mul(theta_dot, o.wheelbase_), Vx))

\* get_commands, lines 278-298: the locals Ws and alpha before the
\* configurations are told apart.  Ws0 is the value the uninitialised local Ws
\* holds, abs_angular what abs(angular) gave, steer_pos the value read from
\* steer_pos_.
CommandIntermediates(o, Vx, angular, from_twist, Ws0, abs_angular, steer_pos) ==
    IF from_twist
    THEN IF Vx = Zero /\ NonZero(angular)
         THEN [alpha |-> IF Less(Zero, angular) THEN M_PI_2 ELSE Neg(M_PI_2),
               Ws |-> Div(Mul(abs_angular, o.wheelbase_), o.wheel_radius_)]
         ELSE [alpha |-> ConvertTransRotVelToSteeringAngle(o, Vx, angular),
               Ws |-> Div(Vx, Mul(o.wheel_radius_, Cos(steer_pos)))]
    ELSE [alpha |-> angular, Ws |-> Ws0]

\* get_commands, lines 316-318 and 335-337: <<Wr, Wl>> of the tricycle and
\* Ackermann configurations when the steering is turned.
SideSpeeds(o, Ws, steer_pos) ==
    LET turning_radius == Div(o.wheelbase_, Tan(steer_pos))
        Wr == Div(Mul(Ws, Add(turning_radius, Mul(o.wheel_track_, Half))), turning_radius)
        Wl == Div(Mul(Ws, Sub(turning_radius, Mul(o.wheel_track_, Half))), turning_radius)
    IN  <<Wr, Wl>>

\* get_commands, lines 340-345: <<alpha_r, alpha_l>> of the Ackermann
\* configuration when the steering is turned.
AckermannSteering(o, alpha) ==
    LET numerator == Mul(Mul(Two, o.wheelbase_), Sin(alpha))
        denominator_first_member == Mul(Mul(Two, o.wheelbase_), Cos(alpha))
        denominator_second_member == Mul(o.wheel_track_, Sin(alpha))
        alpha_r == Atan2(numerator, Sub(denominator_first_member, denominator_second_member))
        alpha_l == Atan2(numerator, Add(denominator_first_member, denominator_second_member))
    IN  <<alpha_r, alpha_l>>

\* get_commands, lines 355-391: the four-wheel-steering commands.
\* y_steering_offset is the value read from y_steering_offset_, sign what
\* copysign(1.0, Ws) gave and alpha_sign the sign copysign(M_PI_2, alpha) takes.
FourSteeringCommands(o, Ws, alpha, y_steering_offset, sign, alpha_sign) ==
    LET steering_track == Sub(o.wheel_track_, Mul(Two, y_steering_offset))
        vel_steering_offset == Div(Mul(alpha, y_steering_offset), o.wheel_radius_)
        lever == Div(Mul(o.wheelbase_, alpha), Two)
        vel_left_front ==
            Sub(Div(Mul(I(sign), Hypot(Sub(Ws, Div(Mul(alpha, steering_track), Two)), lever)),
                    o.wheel_radius_),
                vel_steering_offset)
        vel_right_front ==
            Add(Div(Mul(I(sign), Hypot(Add(Ws, Div(Mul(alpha, steering_track), Two)), lever)),
                    o.wheel_radius_),
                vel_steering_offset)
        vel_left_rear == vel_left_front
        vel_right_rear == vel_right_front
        turned == Less(Fabs(Mul(alpha, steering_track)), Fabs(Mul(Two, Ws)))
        on_the_spot == ~turned /\ Less(<<1, 1000>>, Fabs(Ws))
        front_left_steering ==
            IF turned
            THEN Atan(Div(Mul(alpha, o.wheelbase_),
                          Sub(Mul(Two, Ws), Mul(alpha, steering_track))))
            ELSE IF on_the_spot THEN Mul(I(alpha_sign), M_PI_2)
            ELSE Zero
        front_right_steering ==
            IF turned
            THEN Atan(Div(Mul(alpha, o.wheelbase_),
                          Add(Mul(Two, Ws), Mul(alpha, steering_track))))
            ELSE IF on_the_spot THEN Mul(I(alpha_sign), M_PI_2)
            ELSE Zero
        rear_left_steering == Neg(front_left_steering)
        rear_right_steering == Neg(front_right_steering)
    IN  [traction_commands |->
             <<vel_left_front, vel_right_front, vel_left_rear, vel_right_rear>>,
         steering_commands |->
             <<front_left_steering, front_right_steering,
               rear_left_steering, rear_right_steering>>]

\* get_commands(Vx, angular, from_twist).  Ws0 is the value the uninitialised
\* local Ws holds; abs_angular, sign and alpha_sign are what abs and the two
\* copysign calls gave; config_type, steer_pos and y_steering_offset are the
\* values read from the members of those names.
GetCommands(o, Vx, angular, from_twist, Ws0, abs_angular, sign, alpha_sign, config_type, steer_pos, y_steering_offset) ==
    LET mid == CommandIntermediates(o, Vx, angular, from_twist, Ws0, abs_angular, steer_pos)
        Ws == mid.Ws
        alpha == mid.alpha
        straight == Less(Fabs(steer_pos), AngularEps)
    IN  CASE config_type = "BICYCLE_CONFIG" ->
                 [thrown |-> "", traction_commands |-> <<Ws>>,
                  steering_commands |-> <<alpha>>]
          [] config_type = "TRICYCLE_CONFIG" ->
                 [thrown |-> "",
                  traction_commands |->
                      IF straight THEN <<Ws, Ws>> ELSE SideSpeeds(o, Ws, steer_pos),
                  steering_commands |-> <<alpha>>]
          [] config_type = "ACKERMANN_CONFIG" ->
                 IF straight
                 THEN [thrown |-> "", traction_commands |-> <<Ws, Ws>>,
                       steering_commands |-> <<alpha, alpha>>]
                 ELSE [thrown |-> "",
                       traction_commands |-> SideSpeeds(o, Ws, steer_pos),
                       steering_commands |-> AckermannSteering(o, alpha)]
          [] config_type = "FOUR_STEERING_CONFIG" ->
                 [thrown |-> ""] @@
                 FourSteeringCommands(o, Ws, alpha, y_steering_offset, sign, alpha_sign)
          [] OTHER ->
                 [thrown |-> "Config not implemented", traction_commands |-> << >>,
                  steering_commands |-> << >>]

\* reset_odometry that leaves the accumulators.
ResetOdometryKeepsAccumulators(o) ==
    [o EXCEPT !.x_ = NoTerms, !.y_ = NoTerms, !.heading_ = Zero]

\* reset_odometry()
ResetOdometry(o) ==
    ResetAccumulators([o EXCEPT !.x_ = NoTerms, !.y_ = NoTerms, !.heading_ = Zero])


\* update_four_steering, lines 148 and 161: front_tmp (steering = front_steering)
\* and rear_tmp (steering = rear_steering).
AxleTmp(o, steering, front_steering, rear_steering) ==
    Div(Mul(Cos(steering), Sub(Tan(front_steering), Tan(rear_steering))), o.wheelbase_)

\* lines 150-153 and 163-166: front_left_tmp, rear_left_tmp (side = -1) and
\* front_right_tmp, rear_right_tmp (side = 1).
SideTmp(o, tmp, steering, side) ==
    LET t == Mul(Mul(o.wheel_track_, tmp), Cos(steering))
        q == Sq(Div(Mul(o.wheel_track_, tmp), Two))
    IN  Div(tmp, Sqrt(Add(IF side < 0 THEN Sub(One, t) ELSE Add(One, t), q)))

\* lines 155-156 and 168-169: speed * (1 / (1 - y_steering_offset_ * side_tmp))
SpeedTmp(speed, y_steering_offset, side_tmp) ==
    Mul(speed, Div(One, Sub(One, Mul(y_steering_offset, side_tmp))))

\* fl_speed_tmp + fr_speed_tmp, whose sign line 158 takes.
FrontSpeedSum(o, y_steering_offset, fr_speed, fl_speed, front_steering, rear_steering) ==
    LET front_tmp == AxleTmp(o, front_steering, front_steering, rear_steering)
    IN  Add(SpeedTmp(fl_speed, y_steering_offset,
                     SideTmp(o, front_tmp, front_steering, -1)),
            SpeedTmp(fr_speed, y_steering_offset,
                     SideTmp(o, front_tmp, front_steering, 1)))

\* rl_speed_tmp + rr_speed_tmp, whose sign line 171 takes.
RearSpeedSum(o, y_steering_offset, rr_speed, rl_speed, front_steering, rear_steering) ==
    LET rear_tmp == AxleTmp(o, rear_steering, front_steering, rear_steering)
    IN  Add(SpeedTmp(rl_speed, y_steering_offset,
                     SideTmp(o, rear_tmp, rear_steering, -1)),
            SpeedTmp(rr_speed, y_steering_offset,
                     SideTmp(o, rear_tmp, rear_steering, 1)))

\* lines 158-159: front_linear_speed, front_sign being copysign(1.0, fl_speed_tmp +
\* fr_speed_tmp); the root is of the raw fl_speed and fr_speed.
FrontLinearSpeed(o, fr_speed, fl_speed, front_steering, rear_steering, front_sign) ==
    LET front_tmp == AxleTmp(o, front_steering, front_steering, rear_steering)
    IN  Mul(Mul(o.wheel_radius_, I(front_sign)),
            Sqrt(Div(Add(Sq(fl_speed), Sq(fr_speed)),
                     Add(Two, Div(Sq(Mul(o.wheel_track_, front_tmp)), Two)))))

\* lines 171-172: rear_linear_speed, rear_sign being copysign(1.0, rl_speed_tmp +
\* rr_speed_tmp).
RearLinearSpeed(o, y_steering_offset, rr_speed, rl_speed, front_steering, rear_steering, rear_sign) ==
    LET rear_tmp == AxleTmp(o, rear_steering, front_steering, rear_steering)
        rl_speed_tmp == SpeedTmp(rl_speed, y_steering_offset,
                                 SideTmp(o, rear_tmp, rear_steering, -1))
        rr_speed_tmp == SpeedTmp(rr_speed, y_steering_offset,
                                 SideTmp(o, rear_tmp, rear_steering, 1))
    IN  Mul(Mul(o.wheel_radius_, I(rear_sign)),
            Sqrt(Div(Add(Sq(rl_speed_tmp), Sq(rr_speed_tmp)),
                     Add(Two, Div(Sq(Mul(o.wheel_track_, rear_tmp)), Two)))))

\* update_four_steering(fr_speed, fl_speed, rr_speed, rl_speed, front_steering,
\* rear_steering, dt); y_steering_offset is the value read from
\* y_steering_offset_, the three signs are what the copysign calls of lines 158,
\* 171 and 180 gave.  angular_ is assigned (line 174) before update_odometry runs.
UpdateFourSteering(o, y_steering_offset, fr_speed, fl_speed, rr_speed, rl_speed, front_steering, rear_steering, dt, front_sign, rear_sign, linear_sign) ==
    LET front_tmp == AxleTmp(o, front_steering, front_steering, rear_steering)
        front_linear_speed ==
            FrontLinearSpeed(o, fr_speed, fl_speed, front_steering, rear_steering,
                             front_sign)
        rear_tmp == AxleTmp(o, rear_steering, front_steering, rear_steering)
        rear_linear_speed ==
            RearLinearSpeed(o, y_steering_offset, rr_speed, rl_speed, front_steering,
                            rear_steering, rear_sign)
        angular == Div(Add(Mul(front_linear_speed, front_tmp),
                           Mul(rear_linear_speed, rear_tmp)), Two)
        o1 == [o EXCEPT !.angular_ = angular]
        linear_x_ == Div(Add(Mul(front_linear_speed, Cos(front_steering)),
                             Mul(rear_linear_speed, Cos(rear_steering))), Two)
        linear_y_ ==
            Div(Add(Add(Sub(Mul(front_linear_speed, Sin(front_steering)),
                            Div(Mul(o.wheelbase_, angular), Two)),
                        Mul(rear_linear_speed, Sin(rear_steering))),
                    Div(Mul(o.wheelbase_, angular), Two)), Two)
        linear_velocity ==
            Mul(I(linear_sign), Sqrt(Add(Sq(linear_x_), Sq(linear_y_))))
    IN  Outcome(UpdateOdometry(o1, linear_velocity, angular, dt),
                linear_velocity, angular, << >>)


----------------------------------------------------------------------------
(* Bounds and the inputs the callers give *)

\* Calls on the odometry object in one run.
MaxCalls == 3

\* Rolling window sizes are 1..MaxWindow.
MaxWindow == 2

\* The requested velocities given to the limiter are 0, 1/2, VMax and -VMax.
VMax == 5

\* Wheel position readings [rad].
WheelPositions == {<<1, 100>>, <<2, 100>>}

\* <<right, left>> wheel position readings.
WheelPositionPairs == {<<(<<1, 100>>), (<<2, 100>>)>>, <<(<<2, 100>>), (<<2, 100>>)>>}

\* Wheel velocity readings [rad/s].
WheelVelocities == {One, Two}

\* <<right, left>> wheel velocity readings.
WheelVelocityPairs == {<<One, Two>>}

\* Steering angle readings [rad].
SteerReadings == {Zero, One}

\* Steering angle readings of the dual-traction position update [rad].
TurnedSteerReadings == {One}

\* <<right, left>> steering readings.
SteerPairs == {<<Half, (<<3, 2>>)>>}

\* <<fr_speed, fl_speed, rr_speed, rl_speed>> given to update_four_steering.
FourWheelSpeeds ==
    { <<One, Two, One, Two>>, <<I(-1), I(-1), I(-1), I(-1)>> }

\* <<front_steering, rear_steering>> given to update_four_steering.
AxleSteerings == {<<Zero, Zero>>, <<One, Zero>>}

\* Periods: below the 0.0001 threshold and on it.
Dts == {<<1, 20000>>, DtMin}

\* <<linear, angular>> commanded to update_open_loop.
OpenLoopCommands == {<<Zero, Zero>>, <<One, Zero>>, <<One, (<<1, 100>>)>>}

\* The geometry set_wheel_params is called with.
WheelRadii == {Half}

Wheelbases == {Two}

WheelTracks == {One}

SteeringOffsets == {<<1, 4>>}

\* The values an indeterminate old wheel position is read as.
GarbagePositions == {Zero, <<1, 100>>}

\* The values an indeterminate steering offset is read as.
GarbageOffsets == {Zero, One}

\* The values a read of member m can give, garbage being those of an
\* indeterminate one.
ReadSet(m, garbage) == IF m = Indet THEN garbage ELSE {m}

\* Arguments of set_odometry_type, by the names of the configurations
\* get_commands tells apart, and one that is none of them.
ConfigTypes ==
    {"BICYCLE_CONFIG", "TRICYCLE_CONFIG", "ACKERMANN_CONFIG", "FOUR_STEERING_CONFIG",
     "OTHER_CONFIG"}

\* Arguments of get_commands: Vx and angular.
CommandSpeeds == {Zero, One}

CommandAngulars == {Zero, One, I(-1)}

\* The values the uninitialised local Ws of get_commands is read as.
GarbageWs == {Zero, One}

\* The values an indeterminate steer_pos_ is read as.
GarbageSteerings == {Zero, One}

\* Timestamps given to init.
Times == {One}

\* limit() calls a caller chains on one channel.
MaxChain == 3

\* Calls on one SpeedLimiter object in one run.
MaxLimiterCalls == 1

\* Limiter bounds given to the constructor (NaN: not specified).
MinLimits == {NaN, <<-1, 2>>}

MaxLimits == {NaN, One}

\* Requested velocities v.
LimiterVs == {Zero, Half, I(VMax), I(-VMax)}

\* Previous velocities v0 and v1.
LimiterPrev == {Zero, One}

LimiterDts == {<<1, 10>>, One}

----------------------------------------------------------------------------
(* State *)

VARIABLES
    odom,      \* the SteeringOdometry object
    limiter,   \* the SpeedLimiter objects constructed: << >> or <<the object>>
    thrown,    \* what the last SpeedLimiter constructor call threw ("" if nothing)
    op,        \* the last call on odom: its name, arguments and results
    calls,     \* update calls made so far
    recent,    \* the samples of the last feedback updates since the accumulators
               \* were reset, at most velocity_rolling_window_size_ of them, and
               \* whether all the samples since then were finite
    travel,    \* per old-position member: its value at its first read (base)
               \* and the sum of the distance deltas computed from it since
    lim,       \* the last call on the limiter: its name, arguments and results
    cmd,       \* the last get_commands call: << >> or <<its arguments, the
               \* values it read and what it returned>>
    chan       \* one channel a caller runs limit() on: the caller's v0 and v1,
               \* the calls made and the last call's arguments and return value

vars == <<odom, limiter, thrown, op, calls, recent, travel, lim, cmd, chan>>

odomVars == <<odom, op, calls, recent, travel>>

limVars == <<limiter, thrown, lim>>

NoCall == [name |-> "none", ret |-> "void", dt |-> Zero, core |-> << >>,
           dist |-> << >>, pos |-> << >>, steer |-> << >>]

NoSamples == [lin |-> << >>, ang |-> << >>, linFinite |-> TRUE, angFinite |-> TRUE]

NoLimiterCall == [name |-> "none", args |-> << >>, v |-> Zero, ret |-> Zero, n |-> 0]

\* The caller's record of one channel before its first limit() call.
NewChannel == [v0 |-> Zero, v1 |-> Zero, n |-> 0, args |-> << >>, ret |-> Zero]

Init ==
    /\ \E n \in 1..MaxWindow : odom = SteeringOdometryCtor(n)
    /\ limiter = << >>
    /\ thrown = ""
    /\ op = NoCall
    /\ calls = 0
    /\ recent = NoSamples
    /\ travel = [single |-> [base |-> Zero, sum |-> Zero],
                 right |-> [base |-> Indet, sum |-> Zero],
                 left |-> [base |-> Indet, sum |-> Zero]]
    /\ lim = NoLimiterCall
    /\ cmd = << >>
    /\ chan = NewChannel


----------------------------------------------------------------------------
(* Calls on the SteeringOdometry object *)

\* seq with val appended, cut to its last n elements.
Push(seq, val, n) ==
    LET s2 == Append(seq, val) IN IF Len(s2) > n THEN Tail(s2) ELSE s2

\* The old-position record t after a call read the member as old and computed delta.
Travelled(t, old, delta) ==
    [base |-> IF t.base = Indet THEN old ELSE t.base, sum |-> Add(t.sum, delta)]

\* What every feedback update (one that ends in update_odometry) does to the
\* state: out is the Outcome of the call.
Feedback(name, outcome, dt, pos, steer) ==
    /\ calls < MaxCalls
    /\ \E out \in {outcome} :
        /\ odom' = out.o
        /\ op' = [name |-> name, ret |-> IF out.ret THEN "true" ELSE "false",
                  dt |-> dt, core |-> out.core, dist |-> out.dist, pos |-> pos,
                  steer |-> steer]
        /\ recent' = IF Less(dt, DtMin) THEN recent
                     ELSE [lin |-> Push(recent.lin, out.core[1],
                                        odom.velocity_rolling_window_size_),
                           ang |-> Push(recent.ang, Div(out.core[2], dt),
                                        odom.velocity_rolling_window_size_),
                           linFinite |-> recent.linFinite /\ IsFinite(out.core[1]),
                           angFinite |-> recent.angFinite
                                             /\ IsFinite(Div(out.core[2], dt))]
    /\ calls' = calls + 1
    /\ UNCHANGED <<limVars, cmd, chan>>

\* A call that returns nothing and takes no period.
Config(name, o) ==
    /\ calls < MaxCalls
    /\ odom' = o
    /\ op' = [NoCall EXCEPT !.name = name]
    /\ calls' = calls + 1
    /\ UNCHANGED travel
    /\ UNCHANGED <<limVars, cmd, chan>>

CallUpdateFromPosition1 ==
    \E p \in WheelPositions, s \in SteerReadings, dt \in Dts :
        LET out == UpdateFromPosition1(odom, p, s, dt)
        IN  /\ Feedback("update_from_position_1", out, dt, <<p>>, <<s>>)
            /\ travel' = [travel EXCEPT
                   !.single = Travelled(@, odom.traction_wheel_old_pos_, out.dist[1])]

CallUpdateFromPosition2 ==
    \E w \in WheelPositionPairs, s \in TurnedSteerReadings, dt \in Dts :
    \E old_right \in ReadSet(odom.traction_right_wheel_old_pos_, GarbagePositions),
       old_left \in ReadSet(odom.traction_left_wheel_old_pos_, GarbagePositions) :
        LET out == UpdateFromPosition2(odom, old_right, old_left, w[1], w[2], s, dt)
        IN  /\ Feedback("update_from_position_2", out, dt, w, <<s>>)
            /\ travel' = [travel EXCEPT
                   !.right = Travelled(@, old_right, out.dist[1]),
                   !.left = Travelled(@, old_left, out.dist[2])]

CallUpdateFromPosition3 ==
    \E w \in WheelPositionPairs, s \in SteerPairs, dt \in Dts :
    \E old_right \in ReadSet(odom.traction_right_wheel_old_pos_, GarbagePositions),
       old_left \in ReadSet(odom.traction_left_wheel_old_pos_, GarbagePositions) :
        LET out == UpdateFromPosition3(odom, old_right, old_left, w[1], w[2],
                                       s[1], s[2], dt)
        IN  /\ Feedback("update_from_position_3", out, dt, w, s)
            /\ travel' = [travel EXCEPT
                   !.right = Travelled(@, old_right, out.dist[1]),
                   !.left = Travelled(@, old_left, out.dist[2])]

CallUpdateFromVelocity1 ==
    \E w \in WheelVelocities, s \in SteerReadings, dt \in Dts :
        /\ Feedback("update_from_velocity_1", UpdateFromVelocity1(odom, w, s, dt),
                    dt, <<w>>, <<s>>)
        /\ UNCHANGED travel

CallUpdateFromVelocity2 ==
    \E w \in WheelVelocityPairs, s \in SteerReadings, dt \in Dts :
        /\ Feedback("update_from_velocity_2",
                    UpdateFromVelocity2(odom, w[1], w[2], s, dt), dt, w, <<s>>)
        /\ UNCHANGED travel

CallUpdateFromVelocity3 ==
    \E w \in WheelVelocityPairs, s \in SteerPairs, dt \in Dts :
        /\ Feedback("update_from_velocity_3",
                    UpdateFromVelocity3(odom, w[1], w[2], s[1], s[2], dt), dt, w, s)
        /\ UNCHANGED travel

\* The signs to try for copysign(1.0, a) when the result multiplies a value of
\* magnitude m: a NaN or a zero m is the same product under either sign.
Signs(a, m) == IF IsNaN(m) \/ m = Zero THEN {1} ELSE SignSet(a)

CallUpdateFourSteering ==
    /\ calls < MaxCalls
    /\ \E w \in FourWheelSpeeds, a \in AxleSteerings, dt \in Dts :
       \E yoff \in ReadSet(odom.y_steering_offset_, GarbageOffsets) :
       \E front_sign \in
              Signs(FrontSpeedSum(odom, yoff, w[1], w[2], a[1], a[2]),
                    FrontLinearSpeed(odom, w[1], w[2], a[1], a[2], 1)),
          rear_sign \in
              Signs(RearSpeedSum(odom, yoff, w[3], w[4], a[1], a[2]),
                    RearLinearSpeed(odom, yoff, w[3], w[4], a[1], a[2], 1)) :
       \E linear_sign \in
              Signs(RearLinearSpeed(odom, yoff, w[3], w[4], a[1], a[2], rear_sign),
                    UpdateFourSteering(odom, yoff, w[1], w[2], w[3], w[4], a[1], a[2],
                                       dt, front_sign, rear_sign, 1).core[1]) :
           /\ Feedback("update_four_steering",
                       UpdateFourSteering(odom, yoff, w[1], w[2], w[3], w[4], a[1], a[2],
                                          dt, front_sign, rear_sign, linear_sign),
                       dt, w, a)
           /\ UNCHANGED travel

CallUpdateOpenLoop ==
    \E c \in OpenLoopCommands, dt \in Dts :
        /\ calls < MaxCalls
        /\ odom' = UpdateOpenLoop(odom, c[1], c[2], dt)
        /\ op' = [NoCall EXCEPT !.name = "update_open_loop", !.dt = dt, !.core = c]
        /\ calls' = calls + 1
        /\ UNCHANGED <<recent, travel>>
        /\ UNCHANGED <<limVars, cmd, chan>>

CallSetWheelParams3 ==
    \E r \in WheelRadii, b \in Wheelbases, t \in WheelTracks :
        /\ Config("set_wheel_params_3", SetWheelParams3(odom, r, b, t))
        /\ UNCHANGED recent

CallSetWheelParams4 ==
    \E r \in WheelRadii, b \in Wheelbases, t \in WheelTracks, y \in SteeringOffsets :
        /\ Config("set_wheel_params_4", SetWheelParams4(odom, r, b, t, y))
        /\ UNCHANGED recent

CallSetVelocityRollingWindowSize ==
    \E n \in 1..MaxWindow :
        /\ Config("set_velocity_rolling_window_size",
                  SetVelocityRollingWindowSize(odom, n))
        /\ recent' = NoSamples

CallSetOdometryType ==
    \E type \in ConfigTypes :
        /\ Config("set_odometry_type", SetOdometryType(odom, type))
        /\ UNCHANGED recent

CallInit ==
    \E time \in Times :
        /\ calls < MaxCalls
        /\ odom' = InitOdometry(odom, time)
        /\ op' = [NoCall EXCEPT !.name = "init", !.pos = <<time>>]
        /\ calls' = calls + 1
        /\ recent' = NoSamples
        /\ UNCHANGED travel
        /\ UNCHANGED <<limVars, cmd, chan>>

CallResetOdometry ==
    /\ Config("reset_odometry", ResetOdometry(odom))
    /\ recent' = NoSamples

Next ==
    \/ CallUpdateFromPosition1
    \/ CallUpdateFromPosition2
    \/ CallUpdateFromPosition3
    \/ CallUpdateFromVelocity1
    \/ CallUpdateFromVelocity2
    \/ CallUpdateFromVelocity3
    \/ CallUpdateFourSteering
    \/ CallUpdateOpenLoop
    \/ CallSetWheelParams3
    \/ CallSetWheelParams4
    \/ CallSetVelocityRollingWindowSize
    \/ CallSetOdometryType
    \/ CallInit
    \/ CallResetOdometry

Spec == Init /\ [][Next]_vars

\* get_commands(Vx, angular, from_twist): it changes no member.
CallGetCommands ==
    \E Vx \in CommandSpeeds, angular \in CommandAngulars, from_twist \in BOOLEAN,
       Ws0 \in GarbageWs :
    \E abs_angular \in AbsSet(angular),
       config_type \in (IF odom.config_type_ = "indeterminate"
                        THEN ConfigTypes ELSE {odom.config_type_}),
       steer_pos \in ReadSet(odom.steer_pos_, GarbageSteerings),
       y_steering_offset \in ReadSet(odom.y_steering_offset_, GarbageOffsets) :
    \E mid \in {CommandIntermediates(odom, Vx, angular, from_twist, Ws0,
                                      abs_angular, steer_pos)} :
    \E sign \in SignSet(mid.Ws), alpha_sign \in SignSet(mid.alpha) :
        /\ calls < MaxCalls
        /\ cmd' = << [Vx |-> Vx, angular |-> angular, from_twist |-> from_twist,
                      Ws0 |-> Ws0, abs_angular |-> abs_angular, sign |-> sign,
                      alpha_sign |-> alpha_sign, config_type |-> config_type,
                      steer_pos |-> steer_pos,
                      y_steering_offset |-> y_steering_offset,
                      alpha |-> mid.alpha,
                      result |-> GetCommands(odom, Vx, angular, from_twist, Ws0,
                                             abs_angular, sign, alpha_sign,
                                             config_type, steer_pos,
                                             y_steering_offset)] >>
        /\ op' = [NoCall EXCEPT !.name = "get_commands"]
        /\ calls' = calls + 1
        /\ UNCHANGED <<odom, recent, travel, limVars, chan>>

\* The calls that decide what get_commands reads, then one get_commands call:
\* it changes no member, so the calls after it go as they do without it.
NextCommands ==
    \/ cmd = << >> /\ CallSetWheelParams3
    \/ cmd = << >> /\ CallSetWheelParams4
    \/ cmd = << >> /\ CallSetOdometryType
    \/ cmd = << >> /\ CallUpdateFromVelocity1
    \/ cmd = << >> /\ CallGetCommands

SpecCommands == Init /\ [][NextCommands]_vars


----------------------------------------------------------------------------
(* Calls on the SpeedLimiter *)

\* The constructor: the object exists afterwards unless the constructor threw.
CallSpeedLimiter ==
    \E hv \in BOOLEAN, ha \in BOOLEAN, hj \in BOOLEAN,
       minv \in MinLimits, maxv \in MaxLimits, mina \in MinLimits,
       maxa \in MaxLimits, minj \in MinLimits, maxj \in MaxLimits :
    \E L \in {SpeedLimiterCtor(hv, ha, hj, minv, maxv, mina, maxa, minj, maxj)} :
        /\ lim.name = "none"
        /\ thrown' = L.thrown
        /\ limiter' = IF L.thrown = "" THEN <<L>> ELSE << >>
        /\ lim' = [NoLimiterCall EXCEPT
                       !.name = "SpeedLimiter",
                       !.args = <<hv, ha, hj, minv, maxv, mina, maxa, minj, maxj>>]
        /\ UNCHANGED <<odomVars, cmd, chan>>

\* A call of one of the limit functions on the constructed object: out is what
\* it left in v and returned.
LimiterCall(name, args, out) ==
    /\ limiter # << >>
    /\ lim.n < MaxLimiterCalls
    /\ lim' = [name |-> name, args |-> args, v |-> out.v, ret |-> out.ret,
               n |-> lim.n + 1]
    /\ UNCHANGED <<limiter, thrown>>
    /\ UNCHANGED <<odomVars, cmd, chan>>

CallLimitVelocity ==
    \E v \in LimiterVs :
        LimiterCall("limit_velocity", <<v>>, LimitVelocity(limiter[1], v))

CallLimitAcceleration ==
    \E v \in LimiterVs, v0 \in LimiterPrev, dt \in LimiterDts :
        LimiterCall("limit_acceleration", <<v, v0, dt>>,
                    LimitAcceleration(limiter[1], v, v0, dt))

CallLimitJerk ==
    \E v \in LimiterVs, v0 \in LimiterPrev, v1 \in LimiterPrev, dt \in LimiterDts :
        LimiterCall("limit_jerk", <<v, v0, v1, dt>>,
                    LimitJerk(limiter[1], v, v0, v1, dt))

CallLimit ==
    \E v \in LimiterVs, v0 \in LimiterPrev, v1 \in LimiterPrev, dt \in LimiterDts :
        LimiterCall("limit", <<v, v0, v1, dt>>, Limit(limiter[1], v, v0, v1, dt))

NextLimiter ==
    \/ CallSpeedLimiter
    \/ CallLimitVelocity
    \/ CallLimitAcceleration
    \/ CallLimitJerk
    \/ CallLimit

SpecLimiter == Init /\ [][NextLimiter]_vars

\* A caller's next limit() call on its channel: it requests v, gives its v0
\* and v1, and keeps the limited v as the next v0 and the old v0 as the next v1.
CallLimitOnChannel ==
    \E v \in LimiterVs, dt \in LimiterDts :
        /\ limiter # << >>
        /\ chan.n < MaxChain
        /\ \E out \in {Limit(limiter[1], v, chan.v0, chan.v1, dt)} :
               chan' = [v0 |-> out.v, v1 |-> chan.v0, n |-> chan.n + 1,
                        args |-> <<v, chan.v0, chan.v1, dt>>, ret |-> out.ret]
        /\ UNCHANGED <<limVars, odomVars, cmd>>

NextChannel ==
    \/ CallSpeedLimiter
    \/ CallLimitOnChannel

SpecChannel == Init /\ [][NextChannel]_vars


----------------------------------------------------------------------------
(* Properties of the SpeedLimiter *)

\* The names of the four limit functions.
LimitFunctions == {"limit_velocity", "limit_acceleration", "limit_jerk", "limit"}

\* x bounded to [lo, hi].
Bounded(x, lo, hi) == IF Less(x, lo) THEN lo ELSE IF Less(hi, x) THEN hi ELSE x

\* C2: after limit(v, v0, v1, dt), v is the velocity stage of the acceleration
\* stage of the jerk stage of the requested v.  The jerk stage gives
\* v0 + (v0 - v1) + the second difference (v - v0) - (v0 - v1) bounded to
\* [min_jerk*2*dt^2, max_jerk*2*dt^2]; the acceleration stage gives v0 + the
\* difference v - v0 bounded to [min_acceleration*dt, max_acceleration*dt]; the
\* velocity stage gives v bounded to [min_velocity, max_velocity]; a disabled
\* stage gives its input.
LimitIsJerkThenAccelerationThenVelocity ==
    lim.name = "limit" =>
        LET L == limiter[1]
            v == lim.args[1]
            v0 == lim.args[2]
            v1 == lim.args[3]
            dt == lim.args[4]
            twoDtSq == Mul(Two, Sq(dt))
            afterJerk ==
                IF L.has_jerk_limits_
                THEN Add(Add(v0, Sub(v0, v1)),
                         Bounded(Sub(Sub(v, v0), Sub(v0, v1)),
                                 Mul(L.min_jerk_, twoDtSq), Mul(L.max_jerk_, twoDtSq)))
                ELSE v
            afterAcceleration ==
                IF L.has_acceleration_limits_
                THEN Add(v0, Bounded(Sub(afterJerk, v0), Mul(L.min_acceleration_, dt),
                                     Mul(L.max_acceleration_, dt)))
                ELSE afterJerk
            afterVelocity ==
                IF L.has_velocity_limits_
                THEN Bounded(afterAcceleration, L.min_velocity_, L.max_velocity_)
                ELSE afterAcceleration
        IN  /\ lim.v = afterVelocity
            /\ (~L.has_jerk_limits_ /\ ~L.has_acceleration_limits_
                    /\ ~L.has_velocity_limits_) => lim.v = v

\* A limit call with all three stages enabled in which the jerk stage, the
\* acceleration stage and the velocity stage each changed the value they got.
LimitAllStagesActed ==
    /\ lim.name = "limit"
    /\ limiter[1].has_jerk_limits_
    /\ limiter[1].has_acceleration_limits_
    /\ limiter[1].has_velocity_limits_
    /\ LET L == limiter[1]
           vj == LimitJerk(L, lim.args[1], lim.args[2], lim.args[3], lim.args[4]).v
           va == LimitAcceleration(L, vj, lim.args[2], lim.args[4]).v
       IN  /\ vj # lim.args[1]
           /\ va # vj
           /\ lim.v # va

\* C3: the constructor throws exactly when an enabled category has a NaN max, and
\* then no object exists; when it does not throw, an enabled category has
\* min = -max if its min was NaN and the given min otherwise, and the max of
\* every category is as given.
ConstructorThrowsIffEnabledMaxIsNaN ==
    lim.name = "SpeedLimiter" =>
        LET a == lim.args
            enabled == <<a[1], a[2], a[3]>>
            givenMin == <<a[4], a[6], a[8]>>
            givenMax == <<a[5], a[7], a[9]>>
            failed == \E c \in 1..3 : enabled[c] /\ IsNaN(givenMax[c])
        IN  /\ (thrown # "") <=> failed
            /\ (limiter = << >>) <=> failed
            /\ ~failed =>
                  LET L == limiter[1]
                      min == <<L.min_velocity_, L.min_acceleration_, L.min_jerk_>>
                      max == <<L.max_velocity_, L.max_acceleration_, L.max_jerk_>>
                  IN  \A c \in 1..3 :
                          /\ max[c] = givenMax[c]
                          /\ enabled[c] =>
                                min[c] = IF IsNaN(givenMin[c]) THEN Neg(givenMax[c])
                                         ELSE givenMin[c]

\* The constructor threw for acceleration limits enabled with a NaN
\* max_acceleration, the velocity limits being disabled with a NaN max_velocity.
ConstructorThrewForAcceleration ==
    /\ lim.name = "SpeedLimiter"
    /\ ~lim.args[1] /\ IsNaN(lim.args[5])
    /\ lim.args[2] /\ IsNaN(lim.args[7])
    /\ thrown = "Cannot apply acceleration limits if max_acceleration is not specified"
    /\ limiter = << >>

\* C4: each limit function returns (v after) / (v before) when v before is not
\* zero and 1 when it is zero; with velocity bounds [-1, 1], limit_velocity(5)
\* leaves v = 1 and returns 1/5.
ReturnsRatioOfNewToRequested ==
    lim.name \in LimitFunctions =>
        /\ lim.ret = IF lim.args[1] = Zero THEN One ELSE Div(lim.v, lim.args[1])
        /\ ( /\ lim.name = "limit_velocity"
             /\ limiter[1].has_velocity_limits_
             /\ limiter[1].min_velocity_ = I(-1)
             /\ limiter[1].max_velocity_ = One
             /\ lim.args[1] = I(5) )
           => (lim.v = One /\ lim.ret = <<1, 5>>)

\* limit_velocity(5) was called on a limiter with velocity bounds [-1, 1].
LimitVelocityOfFive ==
    /\ lim.name = "limit_velocity"
    /\ limiter[1].has_velocity_limits_
    /\ limiter[1].min_velocity_ = I(-1)
    /\ limiter[1].max_velocity_ = One
    /\ lim.args[1] = I(5)
    /\ lim.v = One
    /\ lim.ret = <<1, 5>>

\* limit_acceleration was called with v = 0 and left v non-zero.
RatioOfZeroRequest ==
    /\ lim.name = "limit_acceleration"
    /\ lim.args[1] = Zero
    /\ lim.v # Zero
    /\ lim.ret = One


----------------------------------------------------------------------------
(* Properties of the SteeringOdometry *)

PositionOps ==
    {"update_from_position_1", "update_from_position_2", "update_from_position_3"}

VelocityOps ==
    {"update_from_velocity_1", "update_from_velocity_2", "update_from_velocity_3"}

\* The updates that end in update_odometry.
FeedbackOps == PositionOps \cup VelocityOps \cup {"update_four_steering"}

Pose(o) == <<o.x_, o.y_, o.heading_>>

Accumulators(o) == <<o.linear_acc_, o.angular_acc_>>

Geometry(o) == <<o.wheel_radius_, o.wheelbase_, o.wheel_track_, o.y_steering_offset_>>

\* C1: a feedback update with dt < 0.0001 returns false, has integrated the
\* pose from the step's linear_velocity * dt and angular, and leaves linear_,
\* angular_ and both accumulators as they were; one with dt >= 0.0001 returns
\* true.
SmallDtLeavesEstimates ==
    [][ op'.name \in FeedbackOps =>
          IF Less(op'.dt, DtMin)
          THEN /\ op'.ret = "false"
               /\ Pose(odom') = Pose(IntegrateExact(odom, Mul(op'.core[1], op'.dt),
                                                    op'.core[2]))
               /\ odom'.linear_ = odom.linear_
               /\ odom'.angular_ = odom.angular_
               /\ Accumulators(odom') = Accumulators(odom)
          ELSE op'.ret = "true" ]_vars

\* update_four_steering returned false on an object with its geometry set whose
\* angular_ was 0, and left a finite non-zero angular_.
FourSteeringChangedAngularOnFailure ==
    /\ op.name = "update_four_steering"
    /\ op.ret = "false"
    /\ calls = 2
    /\ odom.wheelbase_ = Two
    /\ IsFinite(odom.angular_)
    /\ odom.angular_ # Zero

RECURSIVE SumOf(_)
SumOf(samples) ==
    IF samples = << >> THEN Zero ELSE Add(Head(samples), SumOf(Tail(samples)))

\* The arithmetic mean of a non-empty sequence of samples.
MeanOf(samples) == Div(SumOf(samples), I(Len(samples)))

\* What C5 says of one step, finite telling whether the means are required of
\* the accumulator with the samples linFinite / angFinite speak of.
RollingMeans(linRequired, angRequired) ==
    /\ (op'.name \in FeedbackOps /\ op'.ret = "true") =>
          /\ Len(recent'.lin) <= odom.velocity_rolling_window_size_
          /\ recent'.lin # << >>
          /\ linRequired => odom'.linear_ = MeanOf(recent'.lin)
          /\ angRequired => odom'.angular_ = MeanOf(recent'.ang)
    /\ op'.name = "set_velocity_rolling_window_size" =>
          /\ recent' = NoSamples
          /\ odom'.linear_acc_ = NewAccumulator(odom'.velocity_rolling_window_size_)
          /\ odom'.angular_acc_ = NewAccumulator(odom'.velocity_rolling_window_size_)
    /\ op'.name \in FeedbackOps =>
          Pose(odom') = Pose(IntegrateExact(
                                 [SteeringOdometryCtor(1) EXCEPT
                                      !.x_ = odom.x_, !.y_ = odom.y_,
                                      !.heading_ = odom.heading_],
                                 Mul(op'.core[1], op'.dt), op'.core[2]))

ResetZeroesPoseInitKeepsIt ==
    [][ /\ op'.name = "reset_odometry" =>
              /\ Pose(odom') = <<NoTerms, NoTerms, Zero>>
              /\ odom'.linear_acc_ = NewAccumulator(odom.velocity_rolling_window_size_)
              /\ odom'.angular_acc_ = NewAccumulator(odom.velocity_rolling_window_size_)
              /\ Geometry(odom') = Geometry(odom)
              /\ odom'.config_type_ = odom.config_type_
        /\ op'.name = "init" =>
              /\ odom'.linear_acc_ = NewAccumulator(odom.velocity_rolling_window_size_)
              /\ odom'.angular_acc_ = NewAccumulator(odom.velocity_rolling_window_size_)
              /\ odom'.timestamp_ = op'.pos[1]
              /\ Pose(odom') = Pose(odom) ]_vars

\* reset_odometry was called on an object with its geometry and type set, which
\* a successful update had moved.
ResetAfterMotion ==
    /\ op.name = "reset_odometry"
    /\ odom.wheel_radius_ = Half
    /\ odom.wheelbase_ = Two
    /\ odom.linear_ # Zero
    /\ Pose(odom) = <<NoTerms, NoTerms, Zero>>

\* C7: update_open_loop(linear, angular, dt) sets linear_ and angular_ to the
\* commanded values, integrates the pose from linear * dt and angular * dt and
\* leaves both accumulators as they were; update_open_loop(0, 0, dt) leaves the
\* pose as it was.
OpenLoopStoresCommand ==
    [][ op'.name = "update_open_loop" =>
          /\ odom'.linear_ = op'.core[1]
          /\ odom'.angular_ = op'.core[2]
          /\ Pose(odom') = Pose(IntegrateExact(odom, Mul(op'.core[1], op'.dt),
                                               Mul(op'.core[2], op'.dt)))
          /\ odom'.heading_ = Add(odom.heading_, Mul(op'.core[2], op'.dt))
          /\ Accumulators(odom') = Accumulators(odom)
          /\ op'.core = <<Zero, Zero>> => Pose(odom') = Pose(odom) ]_vars

\* update_open_loop turned the vehicle after a successful feedback update had
\* filled the accumulators.
OpenLoopAfterFeedback ==
    /\ op.name = "update_open_loop"
    /\ op.core = <<One, (<<1, 100>>)>>
    /\ odom.heading_ # Zero
    /\ odom.linear_ = One
    /\ odom.linear_acc_ # NewAccumulator(odom.velocity_rolling_window_size_)
    /\ IsFinite(odom.linear_acc_.sum_) /\ odom.linear_acc_.sum_ # Zero

\* C8: heading_ is the plain sum of the increments of the update calls since
\* the last reset: a feedback update adds the angular value it gives to
\* update_odometry (not multiplied by dt, while its linear term is), on the
\* Runge-Kutta and on the exact branch; update_open_loop adds angular * dt;
\* reset_odometry sets it to zero and no other call changes it.  It is not
\* wrapped.
HeadingIsPlainSum ==
    [][ /\ op'.name \in FeedbackOps =>
              /\ odom'.heading_ = Add(odom.heading_, op'.core[2])
              /\ <<odom'.x_, odom'.y_>> =
                     LET o == IntegrateExact(odom, Mul(op'.core[1], op'.dt), op'.core[2])
                     IN  <<o.x_, o.y_>>
        /\ op'.name = "update_open_loop" =>
              odom'.heading_ = Add(odom.heading_, Mul(op'.core[2], op'.dt))
        /\ op'.name = "reset_odometry" => odom'.heading_ = Zero
        /\ op'.name \notin FeedbackOps \cup {"update_open_loop", "reset_odometry"} =>
              odom'.heading_ = odom.heading_ ]_vars

\* Two feedback updates on the exact branch have turned the heading past pi.
HeadingBeyondPi ==
    /\ op.name \in FeedbackOps
    /\ IsFinite(op.core[2])
    /\ ~Less(Fabs(op.core[2]), AngularEps)
    /\ Less(op.core[2], odom.heading_)
    /\ Less(I(4), odom.heading_)

\* C9: every update_from_position call computes each distance delta as
\* wheel_radius_ times the position reading minus the old position it reads, and
\* stores wheel_radius_ times the reading as the old position, also when it
\* returns false; so the deltas of a family sum to the stored old position
\* minus the old position read by the family's first call, and of two
\* consecutive calls of a family with the same readings the second has zero
\* deltas.
PositionDeltasTelescope ==
    /\ [](\A m \in {"single", "right", "left"} :
             LET old == CASE m = "single" -> odom.traction_wheel_old_pos_
                          [] m = "right" -> odom.traction_right_wheel_old_pos_
                          [] m = "left" -> odom.traction_left_wheel_old_pos_
             IN  IF travel[m].base = Indet
                 THEN old = Indet /\ travel[m].sum = Zero
                 ELSE old = Add(travel[m].base, travel[m].sum))
    /\ [][ /\ op'.name = "update_from_position_1" =>
                 /\ op'.dist = <<Sub(Mul(op'.pos[1], odom.wheel_radius_),
                                    odom.traction_wheel_old_pos_)>>
                 /\ odom'.traction_wheel_old_pos_ = Mul(op'.pos[1], odom.wheel_radius_)
           /\ op'.name \in {"update_from_position_2", "update_from_position_3"} =>
                 /\ \E old \in ReadSet(odom.traction_right_wheel_old_pos_,
                                      GarbagePositions) :
                        op'.dist[1] = Sub(Mul(op'.pos[1], odom.wheel_radius_), old)
                 /\ \E old \in ReadSet(odom.traction_left_wheel_old_pos_,
                                      GarbagePositions) :
                        op'.dist[2] = Sub(Mul(op'.pos[2], odom.wheel_radius_), old)
                 /\ odom'.traction_right_wheel_old_pos_ =
                        Mul(op'.pos[1], odom.wheel_radius_)
                 /\ odom'.traction_left_wheel_old_pos_ =
                        Mul(op'.pos[2], odom.wheel_radius_)
           /\ \A family \in {{"update_from_position_1"},
                            {"update_from_position_2", "update_from_position_3"}} :
                 (op.name \in family /\ op'.name \in family /\ op'.pos = op.pos) =>
                     \A i \in 1..Len(op'.dist) : op'.dist[i] = Zero ]_vars

\* A dual-traction update that returned false found the readings of the call
\* before it again: its deltas are zero, after deltas that were not.
SameReadingTwice ==
    /\ op.name = "update_from_position_2"
    /\ op.ret = "false"
    /\ op.dist = <<Zero, Zero>>
    /\ odom.wheel_radius_ = Half
    /\ travel.right.sum # Zero
    /\ travel.left.sum # Zero

\* C10: each update_from_position and update_from_velocity call stores the
\* steering angle (the mean of the two readings in the dual-steer shape) in
\* steer_pos_ and gives tan(steering angle) * linear_velocity / wheelbase_ as
\* angular to update_odometry.
VelocityMirrorsPosition ==
    op.name \in PositionOps \cup VelocityOps =>
        LET steer_angle == IF Len(op.steer) = 2
                           THEN Mul(Add(op.steer[1], op.steer[2]), Half)
                           ELSE op.steer[1]
        IN  /\ odom.steer_pos_ = steer_angle
            /\ op.core[2] = Div(Mul(Tan(steer_angle), op.core[1]), odom.wheelbase_)


-----------------------------------------------------------------------------
(* Properties of get_commands *)

\* The commands the call recorded in c returns when its local Ws starts as Ws0
\* and copysign(1.0, Ws) gives sign.
CommandsWith(o, c, Ws0, sign) ==
    GetCommands(o, c.Vx, c.angular, c.from_twist, Ws0, c.abs_angular, sign, c.alpha_sign, c.config_type, c.steer_pos, c.y_steering_offset)

\* C11: a get_commands call with from_twist = false takes alpha = angular and
\* returns traction and steering commands that do not depend on the value of
\* the local Ws, which the branch never assigns: they are the same whatever
\* that value is.
DirectCommandsIgnoreWs ==
    [][ (cmd' # << >> /\ cmd = << >> /\ ~cmd'[1].from_twist) =>
          /\ cmd'[1].alpha = cmd'[1].angular
          /\ \A Ws0 \in GarbageWs : \A sign \in SignSet(Ws0) :
                 CommandsWith(odom, cmd'[1], Ws0, sign) = cmd'[1].result ]_vars

\* With from_twist = false alpha is the angular argument.
DirectAlphaIsAngular ==
    (cmd # << >> /\ ~cmd[1].from_twist) => cmd[1].alpha = cmd[1].angular

\* With from_twist = true the commands do not depend on what Ws held before.
TwistCommandsIgnoreWs ==
    [][ (cmd' # << >> /\ cmd = << >> /\ cmd'[1].from_twist) =>
          \A Ws0 \in GarbageWs :
              CommandsWith(odom, cmd'[1], Ws0, cmd'[1].sign) = cmd'[1].result ]_vars

\* A bicycle call with from_twist = false returned the unassigned Ws as its
\* traction command.
BicycleReturnsUnassignedWs ==
    /\ cmd # << >>
    /\ ~cmd[1].from_twist
    /\ cmd[1].config_type = "BICYCLE_CONFIG"
    /\ odom.config_type_ = "BICYCLE_CONFIG"
    /\ cmd[1].result.traction_commands = <<cmd[1].Ws0>>
    /\ cmd[1].result.steering_commands = <<cmd[1].angular>>


-----------------------------------------------------------------------------
(* Properties of a channel limited call after call *)

\* L has its three limits enabled, with zero inside its velocity and
\* acceleration ranges and a jerk range that is not empty.
AllLimitsAroundZero(L) ==
    /\ L.has_velocity_limits_ /\ L.has_acceleration_limits_ /\ L.has_jerk_limits_
    /\ ~Less(Zero, L.min_velocity_) /\ ~Less(L.max_velocity_, Zero)
    /\ ~Less(Zero, L.min_acceleration_) /\ ~Less(L.max_acceleration_, Zero)
    /\ ~Less(L.max_jerk_, L.min_jerk_)

\* lo <= x <= hi
Within(x, lo, hi) == IsFinite(x) /\ ~Less(x, lo) /\ ~Less(hi, x)

\* C12: on a channel that starts at v0 = v1 = 0 and feeds each limit() output
\* back as the next v0 (and the old v0 as the next v1), with all limits
\* enabled around zero, every output lies in [min_velocity, max_velocity] and
\* every step output - v0 lies in [min_acceleration * dt, max_acceleration * dt].
ChannelKeepsVelocityAndAcceleration ==
    chan.n > 0 =>
        LET L == limiter[1]
            dt == chan.args[4]
        IN  AllLimitsAroundZero(L) =>
                /\ Within(chan.v0, L.min_velocity_, L.max_velocity_)
                /\ Within(Sub(chan.v0, chan.v1), Mul(L.min_acceleration_, dt),
                          Mul(L.max_acceleration_, dt))

\* A later call of the chain in which the acceleration stage changed what the
\* jerk stage left and the velocity stage then changed it again.
VelocityClampAfterAccelerationClamp ==
    /\ chan.n > 1
    /\ AllLimitsAroundZero(limiter[1])
    /\ chan.args[2] # Zero
    /\ LET L == limiter[1]
           jerked == LimitJerk(L, chan.args[1], chan.args[2], chan.args[3], chan.args[4]).v
           accelerated == LimitAcceleration(L, jerked, chan.args[2], chan.args[4]).v
       IN  /\ accelerated # jerked
           /\ chan.v0 # accelerated
           /\ chan.v0 # chan.v1

\* The jerk bound is the one a later stage overrides: the step of the call
\* changed by more than max_jerk * 2 * dt * dt from the step before it.
JerkBoundOverridden ==
    /\ chan.n > 1
    /\ AllLimitsAroundZero(limiter[1])
    /\ LET dt == chan.args[4]
           da == Sub(Sub(chan.v0, chan.v1), Sub(chan.args[2], chan.args[3]))
       IN  ~Within(da, Mul(limiter[1].min_jerk_, Mul(Two, Mul(dt, dt))),
                   Mul(limiter[1].max_jerk_, Mul(Two, Mul(dt, dt))))


============================================================================
